---------------------------- MODULE Spec2Model ----------------------------
(* A model of the authentication and tool-orchestration engine of omi_hack:  *)
(* McpClientService (OAuth2/PKCE token lifecycle, tool-protocol client),     *)
(* AiService.runPrompt (bounded tool-calling loop) and the AppController     *)
(* endpoints that drive them.                                                *)
(*                                                                           *)
(* The Node.js event loop runs one callback to completion at a time, so an   *)
(* action is what one request handler does between two awaits on I/O: from   *)
(* the arrival of a request or of a network reply to the next network        *)
(* request it issues (or to its HTTP response).  Handlers of different       *)
(* requests interleave at those awaits and share the one McpClientService.   *)
EXTENDS Integers, Sequences, FiniteSets, TLC

(***************************************************************************)
(* Bounds of the model.                                                    *)
(***************************************************************************)
MaxLogins == 2
MaxTokens == 2
MaxClients == 3
MaxTicks == 2
MaxExchanges == 2
MaxIter == 2
MaxCalls == 2

(* Concurrent request handlers. *)
Procs == {1, 2}

(***************************************************************************)
(* Optional values: undefined/null is <<>>, a present value x is <<x>>.    *)
(***************************************************************************)
None == <<>>
Some(x) == <<x>>
Val(o) == o[1]

(***************************************************************************)
(* Program constants.                                                      *)
(***************************************************************************)
RefreshMarginMs == 60000
TickMs == 30 * 1000
(* Token responses: refresh_token present or omitted; expires_in (seconds)   *)
(* present, 0 or omitted (None).                                            *)
TokenReplies ==
  {[refresh_token |-> TRUE, expires_in |-> Some(90)],
   [refresh_token |-> FALSE, expires_in |-> Some(90)],
   [refresh_token |-> TRUE, expires_in |-> Some(0)],
   [refresh_token |-> TRUE, expires_in |-> None]}
Outcomes == {"ok", "reject", "neterr"}

VARIABLES
  client,       \* this.client: None or Some(id of a Client object)
  tokenData,    \* this.tokenData: None or Some(TokenData)
  pendingAuth,  \* this.pendingAuth: None or Some([codeVerifier, state])
  now,          \* Date.now(), in ms
  drawn,        \* how many random verifier/state pairs crypto has produced
  issued,       \* how many token pairs the token endpoint has issued
  sessions,     \* the Client objects constructed so far: id -> status
  procs,        \* the request handlers: where each one is, and its locals
  authUrls,     \* the authorization URLs returned so far (by state nonce)
  xchgSent,     \* per state nonce: authorization_code requests sent for it
  lastGv,       \* the getValidToken call of the latest step, if it made one:
                \* the clock against the expiry, and the refresh requests sent
  lastResponse, \* the response a handler gave in the latest step, if one did
  lastReply     \* the network reply the latest step delivered, if it did

vars == <<client, tokenData, pendingAuth, now, drawn, issued, sessions,
          procs, authUrls, xchgSent, lastGv, lastResponse, lastReply>>

(***************************************************************************)
(* The state as one record, so that a handler is a function from state to  *)
(* state and a call chain is a composition.  ok = FALSE marks a step that  *)
(* would exceed a bound of the model; such a step is not taken.            *)
(***************************************************************************)
(* A handler that is serving no request. *)
Idle == [op |-> "none", pc |-> "done", res |-> "none", state |-> 0,
         call |-> "none", name |-> "none", args |-> None, token |-> None,
         mine |-> 0, req |-> None, out |-> None, run |-> None]

(* No response in this step. *)
NoResponse == [res |-> "none", p |-> 0, body |-> None, from |-> Idle]

(* No getValidToken call in this step. *)
NoGv == [cls |-> "none", rt |-> FALSE, sent |-> 0]

(* No network reply in this step. *)
NoReply == [to |-> 0, kind |-> "none", good |-> FALSE, cause |-> "none"]

Cur == [client |-> client, tokenData |-> tokenData, pendingAuth |-> pendingAuth,
        now |-> now, drawn |-> drawn, issued |-> issued, sessions |-> sessions,
        procs |-> procs, authUrls |-> authUrls, xchgSent |-> xchgSent,
        lastGv |-> NoGv, lastResponse |-> NoResponse, lastReply |-> NoReply,
        ok |-> TRUE]

(* The state in which handler p is given a network reply. *)
Got(p, kind, good) == [Cur EXCEPT !.lastReply = [to |-> p, kind |-> kind,
                                                good |-> good, cause |-> "none"]]

(* The causes a transport's handshake may fail with. *)
Causes == {"ECONNREFUSED", "HTTP 405"}

(* The state in which handler p's handshake has failed with a cause. *)
GotFailure(p, cause) ==
  [Cur EXCEPT !.lastReply = [to |-> p, kind |-> "handshake", good |-> FALSE,
                             cause |-> cause]]

Commit(t) ==
  /\ t.ok
  /\ client' = t.client
  /\ tokenData' = t.tokenData
  /\ pendingAuth' = t.pendingAuth
  /\ now' = t.now
  /\ drawn' = t.drawn
  /\ issued' = t.issued
  /\ sessions' = t.sessions
  /\ procs' = t.procs
  /\ authUrls' = t.authUrls
  /\ xchgSent' = t.xchgSent
  /\ lastGv' = t.lastGv
  /\ lastResponse' = t.lastResponse
  /\ lastReply' = t.lastReply

Overflow(s) == [s EXCEPT !.ok = FALSE]

P(s, p) == s.procs[p]
SetP(s, p, r) == [s EXCEPT !.procs[p] = r]

(* The handler suspends at an await on I/O, its request in flight. *)
Await(s, p, pc, req) == SetP(s, p, [P(s, p) EXCEPT !.pc = pc, !.req = Some(req)])

(* The service call the handler made has returned (res = "ok") or thrown. *)
Ret(s, p, res, out) ==
  SetP(s, p, [P(s, p) EXCEPT !.pc = "ret", !.res = res, !.out = out,
                             !.req = None, !.token = None, !.mine = 0])
Throw(s, p, err) == Ret(s, p, err, None)

(* The handler's response is sent and the handler is free again. *)
Respond(s, p, res, body) ==
  [SetP(s, p, Idle) EXCEPT !.lastResponse = [res |-> res, p |-> p, body |-> body,
                                             from |-> P(s, p)]]

(***************************************************************************)
(* McpClientService: OAuth2 / PKCE                                         *)
(***************************************************************************)

(* SHA-256 then base64url, as an abstract injective function. *)
Sha256(v) == <<"S256", v>>

(* generatePKCE as it would be if the challenge were derived from another  *)
(* random value than the verifier it is returned with.                     *)
generatePKCE_Unrelated(n) == [codeVerifier |-> n, codeChallenge |-> Sha256(n + 1)]

(* The n-th random draw: a fresh verifier, and its challenge. *)
generatePKCE(n) == [codeVerifier |-> n, codeChallenge |-> Sha256(n)]

(* The n-th random draw of a state nonce. *)
RandomState(n) == n

getAuthorizationUrl(s) ==
  LET n == s.drawn + 1
      pk == generatePKCE(n)
      state == RandomState(n)
  IN IF n > MaxLogins THEN Overflow(s)
     ELSE [s EXCEPT !.drawn = n,
                    !.pendingAuth = Some([state |-> state,
                                          codeVerifier |-> pk.codeVerifier]),
                    !.authUrls = Append(@, [state |-> state,
                                            code_challenge |-> pk.codeChallenge,
                                            code_challenge_method |-> "S256"]),
                    !.xchgSent = Append(@, 0)]

(* exchangeCodeForToken as it would be without the comparison of the       *)
(* callback's state with the stored one.                                   *)
exchangeCodeForToken_AnyState(s, p, state) ==
  IF s.pendingAuth = None THEN Throw(s, p, "NoPendingAuthorization")
  ELSE LET mine == Val(s.pendingAuth).state
       IN IF s.xchgSent[mine] >= MaxExchanges THEN Overflow(s)
          ELSE Await([s EXCEPT !.xchgSent[mine] = @ + 1], p, "xchg_wait",
                     [grant_type |-> "authorization_code",
                      code_verifier |-> Val(s.pendingAuth).codeVerifier])

(* exchangeCodeForToken up to its fetch of the token endpoint. *)
exchangeCodeForToken(s, p, state) ==
  IF s.pendingAuth = None THEN Throw(s, p, "NoPendingAuthorization")
  ELSE IF Val(s.pendingAuth).state # state THEN Throw(s, p, "StateMismatch")
  ELSE IF s.xchgSent[state] >= MaxExchanges THEN Overflow(s)
  ELSE Await([s EXCEPT !.xchgSent[state] = @ + 1], p, "xchg_wait",
             [grant_type |-> "authorization_code",
              code_verifier |-> Val(s.pendingAuth).codeVerifier])

(* A value JavaScript treats as true: present and not 0. *)
Truthy(o) == o # None /\ Val(o) # 0

(* The token response parsed and stamped with its absolute expiry. *)
StampedToken(s, tok) ==
  [refresh_token |-> IF tok.refresh_token THEN Some(s.issued + 1) ELSE None,
   expires_in |-> tok.expires_in,
   access_token |-> s.issued + 1,
   expires_at |-> IF Truthy(tok.expires_in)
                  THEN Some(s.now + Val(tok.expires_in) * 1000) ELSE None]

StoreToken(s, tok) ==
  IF s.issued >= MaxTokens THEN Overflow(s)
  ELSE [s EXCEPT !.tokenData = Some(StampedToken(s, tok)), !.issued = @ + 1]

(* exchangeCodeForToken from the token endpoint's reply on. *)
exchangeReply(s, p, outcome, tok) ==
  CASE outcome = "neterr" -> Throw(s, p, "NetworkError")
    [] outcome = "reject" -> Throw(s, p, "TokenExchangeFailed")
    [] OTHER -> Ret([StoreToken(s, tok) EXCEPT !.pendingAuth = None], p, "ok", None)

(* refreshAccessToken up to its fetch of the token endpoint. *)
refreshAccessToken(s, p) ==
  IF s.tokenData = None \/ Val(s.tokenData).refresh_token = None
  THEN Throw(s, p, "NoRefreshToken")
  ELSE Await([s EXCEPT !.lastGv.sent = @ + 1], p, "refresh_wait",
             [refresh_token |-> Val(Val(s.tokenData).refresh_token),
              grant_type |-> "refresh_token"])

(* The expiry test as it would be with >= for >. *)
NeedsRefresh_Inclusive(td, t) ==
  Truthy(td.expires_at) /\ t >= Val(td.expires_at) - RefreshMarginMs

(* The expiry test of getValidToken. *)
NeedsRefresh(td, t) ==
  Truthy(td.expires_at) /\ t > Val(td.expires_at) - RefreshMarginMs

(* Where the clock stands against the stored expiry when getValidToken is  *)
(* entered (measured apart from the test the code makes).                  *)
ExpiryClass(s) ==
  IF s.tokenData = None THEN "noauth"
  ELSE LET e == Val(s.tokenData).expires_at
       IN IF e = None THEN "noexp"
          ELSE IF s.now < Val(e) - 60000 THEN "far"
          ELSE IF s.now = Val(e) - 60000 THEN "edge"
          ELSE "near"

EnterGv(s) ==
  [s EXCEPT !.lastGv =
     [cls |-> ExpiryClass(s),
      rt |-> s.tokenData # None /\ Val(s.tokenData).refresh_token # None,
      sent |-> 0]]

(***************************************************************************)
(* McpClientService: the tool-protocol client                              *)
(***************************************************************************)

(* connect from the token on: a new Client, then the Streamable HTTP       *)
(* handshake.                                                              *)
openTransport(s, p, token) ==
  IF Len(s.sessions) >= MaxClients THEN Overflow(s)
  ELSE LET id == Len(s.sessions) + 1
       IN SetP([s EXCEPT !.sessions = Append(@, "connecting"),
                         !.client = Some(id)],
               p, [P(s, p) EXCEPT !.pc = "http_wait", !.token = Some(token),
                                  !.mine = id, !.req = None])

(* getValidToken, called by connect, up to the first await on I/O. *)
getValidToken(s, p) ==
  LET s1 == EnterGv(s)
  IN IF s.tokenData = None THEN Throw(s1, p, "NotAuthenticated")
     ELSE IF NeedsRefresh(Val(s.tokenData), s.now) THEN refreshAccessToken(s1, p)
     ELSE openTransport(s1, p, Val(s.tokenData).access_token)

connect(s, p) == getValidToken(s, p)

(* refreshAccessToken from the token endpoint's reply on, then the rest of *)
(* getValidToken and connect.                                              *)
refreshReply(s, p, outcome, tok) ==
  CASE outcome = "neterr" -> Throw(s, p, "NetworkError")
    [] outcome = "reject" -> Throw([s EXCEPT !.tokenData = None], p, "RefreshFailed")
    [] OTHER -> LET s1 == StoreToken(s, tok)
                IN IF ~s1.ok THEN s1
                   ELSE openTransport(s1, p, Val(s1.tokenData).access_token)

(* this.client!.listTools() / this.client!.callTool(...) *)
issue(s, p) ==
  IF s.client = None THEN Throw(s, p, "TypeError")
  ELSE Await(s, p, "req_wait",
             [name |-> P(s, p).name, args |-> P(s, p).args,
              method |-> P(s, p).call, on |-> Val(s.client)])

(* connect has returned: the caller of connect goes on. *)
connected(s, p) ==
  IF P(s, p).call = "connect" THEN Ret(s, p, "ok", None) ELSE issue(s, p)

(* The fallback as it would be if it retried on the Client object whose    *)
(* handshake has just failed.                                              *)
httpReply_SameClient(s, p, up) ==
  LET pr == P(s, p)
  IN IF up THEN connected([s EXCEPT !.sessions[pr.mine] = "connected"], p)
     ELSE SetP(s, p, [pr EXCEPT !.pc = "sse_wait"])

(* connect from the reply of the Streamable HTTP handshake on. *)
httpReply(s, p, up) ==
  LET pr == P(s, p)
  IN IF up THEN connected([s EXCEPT !.sessions[pr.mine] = "connected"], p)
     ELSE IF Len(s.sessions) >= MaxClients THEN Overflow(s)
     ELSE LET id == Len(s.sessions) + 1
          IN SetP([s EXCEPT !.sessions = Append([@ EXCEPT ![pr.mine] = "failed"],
                                                "connecting"),
                            !.client = Some(id)],
                  p, [pr EXCEPT !.pc = "sse_wait", !.mine = id])

(* connect from the reply of the SSE handshake on. *)
sseReply(s, p, up) ==
  LET pr == P(s, p)
  IN IF up THEN connected([s EXCEPT !.sessions[pr.mine] = "connected"], p)
     ELSE Ret([s EXCEPT !.sessions[pr.mine] = "failed", !.client = None],
              p, "ConnectFailed", Some(s.lastReply.cause))

listTools(s, p) ==
  LET s1 == SetP(s, p, [P(s, p) EXCEPT !.call = "listTools", !.name = "none",
                                       !.args = None])
  IN IF s.client = None THEN connect(s1, p) ELSE issue(s1, p)

callTool(s, p, name, args) ==
  LET s1 == SetP(s, p, [P(s, p) EXCEPT !.call = "callTool", !.name = name,
                                       !.args = args])
  IN IF s.client = None THEN connect(s1, p) ELSE issue(s1, p)

(* The remote provider's reply to a listTools or callTool request. *)
requestReply(s, p, good, payload) ==
  IF good THEN Ret(s, p, "ok", payload) ELSE Throw(s, p, "RemoteError")

isAuthenticated(s) == s.tokenData # None

(* disconnect up to its await of client.close(). *)
disconnect(s, p) ==
  IF s.client = None THEN Ret(s, p, "ok", None)
  ELSE SetP(s, p, [P(s, p) EXCEPT !.pc = "close_wait", !.mine = Val(s.client)])

(* disconnect from the end of client.close() on. *)
closeReply(s, p, good) ==
  IF good THEN Ret([s EXCEPT !.sessions[P(s, p).mine] = "closed",
                             !.client = None], p, "ok", None)
  ELSE Throw(s, p, "CloseFailed")

(***************************************************************************)
(* AiService.runPrompt                                                     *)
(***************************************************************************)
AddressId == "d0hfrab7gis2gb0kpm50"
BlockedTools == {"get_addresses", "create_cart", "add_to_cart"}
CapMessage ==
  "Reached maximum tool-calling iterations. Last state of conversation is preserved."

(* Tool names the provider may advertise and callers may name; set_address *)
(* stands for any tool other than get_addresses whose name has 'address'.  *)
AllTools == {"search_products", "get_addresses", "create_cart", "add_to_cart",
             "set_address"}
DiscoveredSets == {{}, BlockedTools, AllTools \ BlockedTools, AllTools}

(* toolName.includes('address') *)
IncludesAddress(name) == name \in {"get_addresses", "set_address"}

(* Argument objects: isObject is FALSE for a JSON value that is no object   *)
(* (null).  query stands for the fields other than address_id.             *)
EmptyObject == [isObject |-> TRUE, query |-> None, address_id |-> None]
ArgStrings == {"{\"query\":\"pizza\"}",
               "{\"query\":\"pizza\",\"address_id\":\"home\"}",
               "{\"query\":", "null"}

(* JSON.parse: ok = FALSE when it throws. *)
JsonParse(str) ==
  CASE str = "{\"query\":\"pizza\"}" ->
         [ok |-> TRUE, value |-> [EmptyObject EXCEPT !.query = Some("pizza")]]
    [] str = "{\"query\":\"pizza\",\"address_id\":\"home\"}" ->
         [ok |-> TRUE, value |-> [EmptyObject EXCEPT !.query = Some("pizza"),
                                                   !.address_id = Some("home")]]
    [] str = "null" ->
         [ok |-> TRUE, value |-> [EmptyObject EXCEPT !.isObject = FALSE]]
    [] OTHER -> [ok |-> FALSE, value |-> EmptyObject]

(* JSON.stringify, as an abstract injective function. *)
Stringify(v) == <<"json", v>>

(* What the provider returns for a tool call, and its content. *)
RemoteResult(name) == [content |-> [text |-> name]]
CannedAddresses == [items |-> <<[id |-> AddressId]>>]

(* The filter as it would be if it let every tool through. *)
filteredTools_All(openaiTools) == openaiTools

mcpToolsToOpenAI(mcpTools) == {[name |-> n, type |-> "function"] : n \in mcpTools}

filteredTools(openaiTools) == {t \in openaiTools : t.name \notin BlockedTools}

NewRun(maxIterations) ==
  [sent |-> <<>>, mcpTools |-> {}, maxIterations |-> maxIterations, i |-> 0,
   tools |-> {}, messages |-> <<>>, toolCallLog |-> <<>>, calls |-> <<>>,
   completions |-> 0, asked |-> 0]

R(s, p) == Val(P(s, p).run)
SetR(s, p, r) == SetP(s, p, [P(s, p) EXCEPT !.run = Some(r)])

(* The tool calls the model may ask for. *)
CallChoices ==
  {[name |-> "search_products", id |-> <<0, 0>>, type |-> "function", arguments |-> a] :
      a \in ArgStrings}
  \cup {[name |-> n, id |-> <<0, 0>>, type |-> "function",
         arguments |-> "{\"query\":\"pizza\"}"] :
           n \in {"get_addresses", "add_to_cart", "set_address"}}
  \cup {[name |-> "search_products", id |-> <<0, 0>>,
         type |-> "custom", arguments |-> "{\"query\":\"pizza\"}"]}

CallLists(n) ==
  UNION {[1..k -> CallChoices] : k \in 1..n}

(* The replies the chat-completion API may give in this run: final ones,   *)
(* and requests for tool calls within what is left of MaxCalls.            *)
Replies(r) ==
  LET round == r.completions
      withIds(calls) == [k \in 1..Len(calls) |-> [calls[k] EXCEPT !.id = <<round, k>>]]
      one == [name |-> "search_products", id |-> <<round, 1>>,
              type |-> "function", arguments |-> "{\"query\":\"pizza\"}"]
  IN {[content |-> "Here you go.", finish_reason |-> "stop", tool_calls |-> <<>>],
      [content |-> "", finish_reason |-> "stop", tool_calls |-> <<>>],
      [content |-> "", finish_reason |-> "tool_calls", tool_calls |-> <<>>],
      [content |-> "", finish_reason |-> "length", tool_calls |-> <<one>>]}
     \cup {[content |-> "", finish_reason |-> "tool_calls", tool_calls |-> withIds(c)] :
             c \in CallLists(MaxCalls - r.asked)}

(* runPrompt up to its await of mcpClient.listTools(). *)
runPrompt(s, p) == listTools(s, p)

(* The loop condition as it would be with <= for <. *)
IterationsLeft_Inclusive(r) == r.i <= r.maxIterations

(* The loop condition: iteration r.i is within the cap. *)
IterationsLeft(r) == r.i < r.maxIterations

(* The head of the loop: the next chat-completion call, or the cap. *)
chat(s, p) ==
  LET r == R(s, p)
      r1 == [r EXCEPT !.completions = @ + 1, !.sent = r.messages]
      pr1 == [P(s, p) EXCEPT !.call = "completion", !.run = Some(r1)]
  IN IF IterationsLeft(r)
     THEN Await(SetP(s, p, pr1), p, "llm_wait",
                [tools |-> IF r.tools # {} THEN Some(r.tools) ELSE None,
                 messages |-> r.messages,
                 prev |-> r.sent])
     ELSE Respond(s, p, "ok", Some([response |-> CapMessage,
                                    toolCalls |-> r.toolCallLog]))

(* runPrompt from the tool list on, to the first chat-completion call. *)
startConversation(s, p) ==
  LET found == Val(P(s, p).out).tools
      r == [R(s, p) EXCEPT
              !.mcpTools = found,
              !.tools = filteredTools(mcpToolsToOpenAI(found)),
              !.messages = <<[role |-> "system"],
                             [content |-> "prompt", role |-> "user"]>>]
  IN chat(SetR(s, p, r), p)

(* The overwrite as it would be if it filled address_id in only where the  *)
(* model gave none.                                                        *)
InjectAddress_IfAbsent(toolName, toolArgs) ==
  IF toolArgs.address_id = None /\ IncludesAddress(toolName)
  THEN [toolArgs EXCEPT !.address_id = Some(AddressId)]
  ELSE toolArgs

(* address_id is overwritten when the arguments have it or the tool's name *)
(* has 'address' in it.                                                    *)
InjectAddress(toolName, toolArgs) ==
  IF toolArgs.address_id # None \/ IncludesAddress(toolName)
  THEN [toolArgs EXCEPT !.address_id = Some(AddressId)]
  ELSE toolArgs

(* The short-circuit test as it would be if it never held. *)
ShortCircuits_Never(toolName) == FALSE

(* The tool is answered locally, without the provider. *)
ShortCircuits(toolName) == toolName = "get_addresses"

(* The next tool call of the round, up to its await of callTool; after the *)
(* last one, the next iteration.                                           *)
nextTool(s, p) ==
  LET r == R(s, p)
  IN IF r.calls = <<>> THEN chat(SetR(s, p, [r EXCEPT !.i = @ + 1]), p)
     ELSE LET toolCall == Head(r.calls)
              parsed == JsonParse(toolCall.arguments)
              toolArgs == IF parsed.ok THEN parsed.value ELSE EmptyObject
              injected == InjectAddress(toolCall.name, toolArgs)
              s1 == SetP(s, p, [P(s, p) EXCEPT !.call = "callTool",
                                               !.name = toolCall.name,
                                               !.args = Some(injected)])
          IN IF toolCall.type # "function"
             THEN SetP(SetR(s, p, [r EXCEPT !.calls = Tail(@)]), p,
                       [P(SetR(s, p, [r EXCEPT !.calls = Tail(@)]), p)
                          EXCEPT !.pc = "ret", !.call = "skip"])
             ELSE IF ~toolArgs.isObject THEN Respond(s, p, "TypeError", None)
             ELSE IF ShortCircuits(toolCall.name)
             THEN Ret(s1, p, "ok", Some([content |-> CannedAddresses]))
             ELSE callTool(s, p, toolCall.name, Some(injected))

(* The result of a tool call as it would be if the catch block kept no    *)
(* error.                                                                  *)
toolResult_Swallowed(pr) ==
  IF pr.res = "ok" THEN Val(pr.out).content ELSE [text |-> "none"]

(* The result of a tool call: the content returned, or the error caught. *)
toolResult(pr) ==
  IF pr.res = "ok" THEN Val(pr.out).content ELSE [error |-> pr.res]

(* toolDone as it would be if the tool message were put in front of the   *)
(* conversation.                                                           *)
toolDone_Prepend(s, p) ==
  LET pr == P(s, p)
      r == R(s, p)
  IN nextTool(SetR(s, p,
       [r EXCEPT !.toolCallLog = Append(@, [args |-> Val(pr.args), tool |-> pr.name,
                                            result |-> toolResult(pr)]),
                 !.messages = <<[content |-> Stringify(toolResult(pr)),
                                 role |-> "tool",
                                 tool_call_id |-> Head(r.calls).id]>> \o @,
                 !.calls = Tail(@)]), p)

(* The tool call has returned or thrown: its record and its tool message. *)
toolDone(s, p) ==
  LET pr == P(s, p)
      r == R(s, p)
  IN nextTool(SetR(s, p,
       [r EXCEPT !.toolCallLog = Append(@, [args |-> Val(pr.args), tool |-> pr.name,
                                            result |-> toolResult(pr)]),
                 !.messages = Append(@, [content |-> Stringify(toolResult(pr)),
                                         role |-> "tool",
                                         tool_call_id |-> Head(r.calls).id]),
                 !.calls = Tail(@)]), p)

(* runPrompt from a chat-completion reply on. *)
chatReply(s, p, reply) ==
  LET r == R(s, p)
      r1 == [r EXCEPT !.messages = Append(@, [role |-> "assistant",
                                              message |-> reply]),
                      !.asked = @ + Len(reply.tool_calls)]
  IN IF reply.finish_reason # "tool_calls" \/ reply.tool_calls = <<>>
     THEN Respond(SetR(s, p, r1), p, "ok",
                  Some([response |-> IF reply.content = ""
                                     THEN "No response generated."
                                     ELSE reply.content,
                        toolCalls |-> r.toolCallLog]))
     ELSE nextTool(SetR(s, p, [r1 EXCEPT !.calls = reply.tool_calls]), p)

(* runPrompt goes on after the service call it awaited. *)
promptResume(s, p) ==
  LET pr == P(s, p)
  IN CASE pr.call = "listTools" ->
            IF pr.res = "ok" THEN startConversation(s, p)
            ELSE Respond(s, p, pr.res, pr.out)
       [] pr.call = "callTool" -> toolDone(s, p)
       [] pr.call = "skip" -> nextTool(s, p)
       [] OTHER -> Respond(s, p, pr.res, None)

(***************************************************************************)
(* AppController                                                           *)
(***************************************************************************)

oauthLogin(s) == getAuthorizationUrl(s)

oauthCallback(s, p) ==
  exchangeCodeForToken(SetP(s, p, [P(s, p) EXCEPT !.call = "exchangeCodeForToken"]),
                       p, P(s, p).state)

ensureAuthenticated(s) == isAuthenticated(s)

getTools(s, p) ==
  IF ~ensureAuthenticated(s) THEN Throw(s, p, "Unauthorized")
  ELSE listTools(s, p)

postToolCall(s, p) ==
  IF ~ensureAuthenticated(s) THEN Throw(s, p, "Unauthorized")
  ELSE callTool(s, p, P(s, p).name, P(s, p).args)

postPrompt(s, p) ==
  IF ~ensureAuthenticated(s) THEN Throw(s, p, "Unauthorized")
  ELSE runPrompt(s, p)

(* The handler's first run, from the request's arrival to its first await. *)
Handle(s, p) ==
  CASE P(s, p).op = "callback" -> oauthCallback(s, p)
    [] P(s, p).op = "tools" -> getTools(s, p)
    [] P(s, p).op = "toolcall" -> postToolCall(s, p)
    [] P(s, p).op = "prompt" -> postPrompt(s, p)
    [] OTHER -> disconnect(s, p)

(* The service call a handler awaited has returned or thrown: the handler  *)
(* runs on to its next await on I/O or to its response.                    *)
RECURSIVE Settle(_, _)
Settle(s, p) ==
  LET pr == P(s, p)
  IN IF ~s.ok \/ pr.pc # "ret" THEN s
     ELSE IF pr.op = "callback" /\ pr.call = "exchangeCodeForToken" /\ pr.res = "ok"
     THEN Settle(connect(SetP(s, p, [pr EXCEPT !.call = "connect"]), p), p)
     ELSE IF pr.op = "prompt" THEN Settle(promptResume(s, p), p)
     ELSE Respond(s, p, pr.res, pr.out)

(***************************************************************************)
(* Actions                                                                 *)
(***************************************************************************)
Free(p) == procs[p].pc = "done"

(* A request arrives and is given to a free handler. *)
Arrive(p, r) ==
  /\ Free(p)
  /\ procs' = [procs EXCEPT ![p] = r]
  /\ lastGv' = NoGv
  /\ lastResponse' = NoResponse
  /\ lastReply' = NoReply
  /\ UNCHANGED <<client, tokenData, pendingAuth, now, drawn, issued, sessions,
                 authUrls, xchgSent>>

Request(op) == [Idle EXCEPT !.op = op, !.pc = "run"]

OauthLogin == Commit(oauthLogin(Cur))

CallbackArrives(p) ==
  \E state \in 1..MaxLogins : Arrive(p, [Request("callback") EXCEPT !.state = state])

GetToolsArrives(p) == Arrive(p, Request("tools"))

PostToolCallArrives(p) ==
  \E name \in AllTools :
     Arrive(p, [Request("toolcall") EXCEPT !.name = name, !.args = Some(EmptyObject)])

(* runPrompt is called with a prompt and a cap (POST /prompt passes none    *)
(* and gets the default; here the cap is any small number).                *)
PromptArrives(p) ==
  \E m \in 0..MaxIter : Arrive(p, [Request("prompt") EXCEPT !.run = Some(NewRun(m))])

DisconnectCalled(p) == Arrive(p, Request("disconnect"))

Run(p) ==
  /\ procs[p].pc = "run"
  /\ Commit(Settle(Handle(Cur, p), p))

TokenExchangeReply(p) ==
  /\ procs[p].pc = "xchg_wait"
  /\ \E outcome \in Outcomes, tok \in TokenReplies :
       Commit(Settle(exchangeReply(Got(p, outcome, outcome = "ok"),
                                   p, outcome, tok), p))

RefreshReply(p) ==
  /\ procs[p].pc = "refresh_wait"
  /\ \E outcome \in Outcomes, tok \in TokenReplies :
       Commit(Settle(refreshReply(Got(p, outcome, outcome = "ok"),
                                  p, outcome, tok), p))

HttpHandshake(p) ==
  /\ procs[p].pc = "http_wait"
  /\ \/ Commit(Settle(httpReply(Got(p, "handshake", TRUE), p, TRUE), p))
     \/ \E cause \in Causes :
          Commit(Settle(httpReply(GotFailure(p, cause), p, FALSE), p))

SseHandshake(p) ==
  /\ procs[p].pc = "sse_wait"
  /\ \/ Commit(Settle(sseReply(Got(p, "handshake", TRUE), p, TRUE), p))
     \/ \E cause \in Causes :
          Commit(Settle(sseReply(GotFailure(p, cause), p, FALSE), p))

RequestReply(p) ==
  /\ procs[p].pc = "req_wait"
  /\ LET req == Val(procs[p].req)
     IN \/ Commit(Settle(requestReply(Got(p, "result", FALSE), p, FALSE, None), p))
        \/ /\ sessions[req.on] = "connected"
           /\ req.method = "listTools"
           /\ \E found \in DiscoveredSets :
                Commit(Settle(requestReply(Got(p, "result", TRUE), p, TRUE,
                                           Some([tools |-> found])), p))
        \/ /\ sessions[req.on] = "connected"
           /\ req.method = "callTool"
           /\ Commit(Settle(requestReply(Got(p, "result", TRUE), p, TRUE,
                                         Some(RemoteResult(req.name))), p))

ChatReply(p) ==
  /\ procs[p].pc = "llm_wait"
  /\ \/ Commit(Settle(Respond(Got(p, "completion", FALSE), p,
                               "ChatCompletionFailed", None), p))
     \/ \E reply \in Replies(Val(procs[p].run)) :
          Commit(Settle(chatReply(Got(p, "completion", TRUE), p, reply), p))

CloseReply(p) ==
  /\ procs[p].pc = "close_wait"
  /\ \E good \in BOOLEAN : Commit(Settle(closeReply(Got(p, "closed", good), p, good), p))

Tick ==
  /\ now < MaxTicks * TickMs
  /\ now' = now + TickMs
  /\ lastGv' = NoGv
  /\ lastResponse' = NoResponse
  /\ lastReply' = NoReply
  /\ UNCHANGED <<client, tokenData, pendingAuth, drawn, issued, sessions,
                 procs, authUrls, xchgSent>>

Init ==
  /\ client = None
  /\ tokenData = None
  /\ pendingAuth = None
  /\ now = 0
  /\ drawn = 0
  /\ issued = 0
  /\ sessions = <<>>
  /\ procs = [p \in Procs |-> Idle]
  /\ authUrls = <<>>
  /\ xchgSent = <<>>
  /\ lastGv = NoGv
  /\ lastResponse = NoResponse
  /\ lastReply = NoReply

Next ==
  \/ OauthLogin
  \/ Tick
  \/ \E p \in Procs : CallbackArrives(p)
  \/ \E p \in Procs : GetToolsArrives(p)
  \/ \E p \in Procs : Run(p)
  \/ \E p \in Procs : TokenExchangeReply(p)
  \/ \E p \in Procs : RefreshReply(p)
  \/ \E p \in Procs : HttpHandshake(p)
  \/ \E p \in Procs : SseHandshake(p)
  \/ \E p \in Procs : RequestReply(p)

Spec == Init /\ [][Next]_vars

(***************************************************************************)
(* The orchestration loop, one request at a time, from the state a         *)
(* completed login leaves the service in (authenticated and connected):    *)
(* runs of runPrompt with any cap, direct tool calls, and disconnect,      *)
(* after which the next call connects again.                               *)
(***************************************************************************)
LoggedIn ==
  /\ tokenData = Some([refresh_token |-> Some(1), expires_in |-> None,
                       access_token |-> 1, expires_at |-> None])
  /\ pendingAuth = None
  /\ now = 0
  /\ drawn = 1
  /\ issued = 1
  /\ procs = [p \in Procs |-> Idle]
  /\ authUrls = <<[state |-> 1, code_challenge |-> Sha256(1),
                   code_challenge_method |-> "S256"]>>
  /\ xchgSent = <<1>>
  /\ lastGv = NoGv

RunInit ==
  /\ LoggedIn
  /\ lastResponse = NoResponse
  /\ lastReply = NoReply
  /\ client = Some(1)
  /\ sessions = <<"connected">>

RunNext ==
  \/ PromptArrives(1)
  \/ PostToolCallArrives(1)
  \/ DisconnectCalled(1)
  \/ Run(1)
  \/ HttpHandshake(1)
  \/ SseHandshake(1)
  \/ RequestReply(1)
  \/ ChatReply(1)
  \/ CloseReply(1)

RunSpec == RunInit /\ [][RunNext]_vars


(***************************************************************************)
(* A run of runPrompt (handler 1) while another caller (handler 2) calls   *)
(* disconnect: this.client may become null between two awaits of the run.  *)
(***************************************************************************)
ConcNext ==
  \/ PromptArrives(1)
  \/ Run(1)
  \/ HttpHandshake(1)
  \/ SseHandshake(1)
  \/ RequestReply(1)
  \/ ChatReply(1)
  \/ DisconnectCalled(2)
  \/ Run(2)
  \/ CloseReply(2)

ConcSpec == RunInit /\ [][ConcNext]_vars

(***************************************************************************)
(* Properties of the authorization flow and of token refresh (Spec)        *)
(***************************************************************************)

(* C1: a callback whose state differs from the stored pending              *)
(* authorization's state -- a state issued by an earlier, replaced login   *)
(* included -- is answered with the StateMismatch error, and the step      *)
(* sends nothing to the token endpoint and leaves the stored token and the *)
(* pending authorization as they were.                                     *)
C1_StateMismatchRejected ==
  [][\A p \in Procs :
       (/\ procs[p].op = "callback" /\ procs[p].pc = "run"
        /\ procs'[p] # procs[p]
        /\ pendingAuth # None
        /\ procs[p].state # Val(pendingAuth).state)
       => /\ lastResponse'.p = p
          /\ lastResponse'.res = "StateMismatch"
          /\ procs'[p] = Idle
          /\ xchgSent' = xchgSent
          /\ tokenData' = tokenData
          /\ pendingAuth' = pendingAuth]_vars

(* A callback carrying the state of the first login is refused after a     *)
(* second login has replaced the pending authorization.                    *)
C1_Witness ==
  /\ lastResponse.res = "StateMismatch"
  /\ lastResponse.from.state = 1
  /\ pendingAuth # None /\ Val(pendingAuth).state = 2

(* C2: a pending authorization is consumed exactly once -- no state nonce  *)
(* has more than one authorization_code request sent for it, whether the   *)
(* token endpoint accepts or rejects the exchange.                         *)
C2_ConsumedOnce == \A n \in DOMAIN xchgSent : xchgSent[n] <= 1

C4_ClearedUntilReauthorized ==
  [][/\ \A p \in Procs :
          (procs[p].pc = "refresh_wait" /\ lastReply'.to = p
           /\ lastReply'.kind = "reject") => tokenData' = None
     /\ (tokenData = None /\ tokenData' # None) =>
          \E p \in Procs : /\ procs[p].pc = "xchg_wait"
                           /\ lastReply'.to = p /\ lastReply'.good]_vars

(* C8: the code_verifier sent in a token exchange hashes (SHA-256,         *)
(* base64url) to the code_challenge of the authorization URL that carried  *)
(* the state the callback matched.                                         *)
C8_VerifierMatchesChallenge ==
  \A p \in Procs :
    procs[p].pc = "xchg_wait" =>
      \E k \in DOMAIN authUrls :
        /\ authUrls[k].state = procs[p].state
        /\ authUrls[k].code_challenge_method = "S256"
        /\ authUrls[k].code_challenge = Sha256(Val(procs[p].req).code_verifier)

(* An exchange is in flight for the second login's state. *)
C8_Witness ==
  \E p \in Procs : /\ procs[p].pc = "xchg_wait" /\ procs[p].state = 2
                   /\ Val(procs[p].req).grant_type = "authorization_code"

(* C9: token refresh is a critical section -- no two refresh requests      *)
(* carrying the same refresh token are in flight at once.                  *)
C9_RefreshExclusive ==
  \A p, q \in Procs :
    (p # q /\ procs[p].pc = "refresh_wait" /\ procs[q].pc = "refresh_wait")
    => Val(procs[p].req).refresh_token # Val(procs[q].req).refresh_token

(* C10: connection establishment is single-flight -- at most one handler   *)
(* is opening a transport at a time.                                       *)
C10_ConnectSingleFlight ==
  Cardinality({p \in Procs : procs[p].pc \in {"http_wait", "sse_wait"}}) <= 1


(***************************************************************************)
(* Properties of the orchestration loop (RunSpec)                          *)
(***************************************************************************)

(* C5: a run makes at most maxIterations chat-completion calls; when the   *)
(* cap is what ends it (the run is answered normally although the model's  *)
(* last reply asked for tools, or no reply was ever asked for) the answer  *)
(* is the fixed cap message with the whole trace, one record for every     *)
(* function call the model asked for.                                      *)
C5_IterationCap ==
  /\ \A p \in Procs :
       procs[p].run # None =>
         Val(procs[p].run).completions <= Val(procs[p].run).maxIterations
  /\ lastResponse.from.op = "prompt" =>
       LET r == Val(lastResponse.from.run)
           assistants == {i \in DOMAIN r.messages : r.messages[i].role = "assistant"}
           last == r.messages[CHOOSE i \in assistants : \A j \in assistants : j <= i]
           asksTools(m) == /\ m.message.finish_reason = "tool_calls"
                           /\ m.message.tool_calls # <<>>
           asked == UNION {{<<i, k>> : k \in {k \in DOMAIN r.messages[i].message.tool_calls :
                                r.messages[i].message.tool_calls[k].type = "function"}} :
                           i \in {i \in assistants : asksTools(r.messages[i])}}
           capped == /\ lastResponse.res = "ok"
                     /\ assistants # {} => asksTools(last)
       IN /\ r.completions <= r.maxIterations
          /\ capped =>
               /\ r.completions = r.maxIterations
               /\ Val(lastResponse.body).response = CapMessage
               /\ Val(lastResponse.body).toolCalls = r.toolCallLog
               /\ Len(Val(lastResponse.body).toolCalls) = Cardinality(asked)

(* A run with maxIterations = 2 and one tool call in each round ends on    *)
(* the cap with exactly 2 records.                                         *)
C5_Witness ==
  /\ lastResponse.from.op = "prompt"
  /\ lastResponse.res = "ok"
  /\ Val(lastResponse.from.run).maxIterations = 2
  /\ Val(lastResponse.from.run).completions = 2
  /\ Len(Val(lastResponse.from.run).messages) = 6
  /\ Val(lastResponse.body).response = CapMessage
  /\ Len(Val(lastResponse.body).toolCalls) = 2

(* C6: the tool list sent with a chat-completion request never holds a     *)
(* deny-listed name, whatever the provider advertised; a direct tool call  *)
(* is sent to the provider under the name the caller gave, deny-listed or  *)
(* not, and is answered only by what the provider (or the connection       *)
(* attempt) replied.                                                       *)
C6_DenyListFiltered ==
  /\ \A p \in Procs :
       procs[p].pc = "llm_wait" =>
         \/ Val(procs[p].req).tools = None
         \/ \A tool \in Val(Val(procs[p].req).tools) : tool.name \notin BlockedTools
  /\ \A p \in Procs :
       (procs[p].op = "toolcall" /\ procs[p].pc = "req_wait") =>
         /\ Val(procs[p].req).method = "callTool"
         /\ Val(procs[p].req).name = procs[p].name
  /\ lastResponse.from.op = "toolcall" =>
       /\ lastReply.to = lastResponse.p
       /\ lastReply.kind \in {"result", "handshake"}
       /\ (lastReply.kind = "result" /\ lastReply.good) =>
            lastResponse.body = Some(RemoteResult(lastResponse.from.name))

(* A direct call of the deny-listed create_cart is answered with the       *)
(* provider's result.                                                      *)
C6_Witness ==
  /\ lastResponse.from.op = "toolcall"
  /\ lastResponse.from.name = "create_cart"
  /\ lastResponse.res = "ok"
  /\ lastResponse.body = Some(RemoteResult("create_cart"))

(* C7: when a remote tool invocation of a run throws, the run does not     *)
(* end with that error: the call gets a record whose result is             *)
(* error-shaped, the model is sent a tool message with the same payload    *)
(* under the call's id, and if that was the round's last call and the cap  *)
(* allows, the next chat-completion request is made with that message.     *)
C7_ToolErrorRecorded ==
  [][\A p \in Procs :
       (/\ procs[p].op = "prompt" /\ procs[p].pc = "req_wait"
        /\ Val(procs[p].req).method = "callTool"
        /\ lastReply'.to = p /\ lastReply'.kind = "result" /\ ~lastReply'.good)
       => LET r == Val(procs[p].run)
              after == IF procs'[p].run # None THEN Val(procs'[p].run)
                       ELSE Val(lastResponse'.from.run)
              k == Len(r.toolCallLog) + 1
              m == Len(r.messages) + 1
          IN /\ lastResponse'.res # "RemoteError"
             /\ Len(after.toolCallLog) >= k
             /\ after.toolCallLog[k].tool = Val(procs[p].req).name
             /\ after.toolCallLog[k].args = Val(Val(procs[p].req).args)
             /\ DOMAIN after.toolCallLog[k].result = {"error"}
             /\ Len(after.messages) >= m
             /\ after.messages[m] =
                  [content |-> Stringify(after.toolCallLog[k].result), role |-> "tool",
                   tool_call_id |-> Head(r.calls).id]
             /\ (Len(r.calls) = 1 /\ r.i + 1 < r.maxIterations) =>
                  /\ procs'[p].pc = "llm_wait"
                  /\ after.completions = r.completions + 1
                  /\ Val(procs'[p].req).messages = after.messages]_vars

(* A remote invocation has just thrown, and the run is waiting for the     *)
(* model's next reply with the error recorded.                             *)
C7_Witness ==
  \E p \in Procs :
    /\ lastReply.to = p /\ lastReply.kind = "result" /\ ~lastReply.good
    /\ procs[p].op = "prompt" /\ procs[p].pc = "llm_wait"
    /\ Val(procs[p].run).completions = 2
    /\ Val(procs[p].run).toolCallLog # <<>>
    /\ DOMAIN Val(procs[p].run).toolCallLog[1].result = {"error"}

(* C15: whenever a run is between rounds or has ended, every function     *)
(* call the model asked for in a tool-calling reply has exactly one record *)
(* in the trace and exactly one tool message with its id in the            *)
(* conversation, in the order asked -- whatever happened to the other      *)
(* calls of its round.                                                     *)
C15_OneRecordPerCall ==
  LET asksTools(m) == /\ m.role = "assistant"
                      /\ m.message.finish_reason = "tool_calls"
                      /\ m.message.tool_calls # <<>>
      isFunction(c) == c.type = "function"
      isTool(m) == m.role = "tool"
      RECURSIVE asked(_)
      asked(ms) == IF ms = <<>> THEN <<>>
                   ELSE IF asksTools(Head(ms))
                   THEN SelectSeq(Head(ms).message.tool_calls, isFunction)
                        \o asked(Tail(ms))
                   ELSE asked(Tail(ms))
      complete(r) ==
        LET calls == asked(r.messages)
            toolMessages == SelectSeq(r.messages, isTool)
        IN /\ Len(toolMessages) = Len(calls)
           /\ Len(r.toolCallLog) = Len(calls)
           /\ \A k \in DOMAIN calls :
                /\ toolMessages[k].tool_call_id = calls[k].id
                /\ r.toolCallLog[k].tool = calls[k].name
  IN /\ \A p \in Procs :
          (procs[p].op = "prompt" /\ procs[p].pc = "llm_wait") =>
            complete(Val(procs[p].run))
     /\ (lastResponse.from.op = "prompt" /\ lastResponse.from.call # "listTools") =>
          complete(Val(lastResponse.from.run))

(* C16: the conversation of a run is append-only and ordered: the first   *)
(* chat-completion request carries the system and user messages, and each  *)
(* later one carries the previous request's messages, then the assistant   *)
(* reply of the round, then one tool message for each function call of     *)
(* that reply, in order -- so every call of the round has finished when    *)
(* the request is made.                                                    *)
C16_ConversationAppendOnly ==
  \A p \in Procs :
    (procs[p].op = "prompt" /\ procs[p].pc = "llm_wait") =>
      LET req == Val(procs[p].req)
          n == Len(req.prev)
          isFunction(c) == c.type = "function"
      IN IF Val(procs[p].run).completions = 1
         THEN /\ req.prev = <<>>
              /\ Len(req.messages) = 2
              /\ req.messages[1].role = "system"
              /\ req.messages[2].role = "user"
         ELSE /\ Len(req.messages) > n
              /\ SubSeq(req.messages, 1, n) = req.prev
              /\ req.messages[n + 1].role = "assistant"
              /\ LET calls == SelectSeq(req.messages[n + 1].message.tool_calls,
                                        isFunction)
                 IN /\ Len(req.messages) = n + 1 + Len(calls)
                    /\ \A k \in DOMAIN calls :
                         /\ req.messages[n + 1 + k].role = "tool"
                         /\ req.messages[n + 1 + k].tool_call_id = calls[k].id

(* The second request of a run whose first round had two tool calls. *)
C16_Witness ==
  \E p \in Procs :
    /\ procs[p].op = "prompt" /\ procs[p].pc = "llm_wait"
    /\ Val(procs[p].run).completions = 2
    /\ Len(Val(procs[p].req).prev) = 2
    /\ Len(Val(procs[p].req).messages) = 5

(* C17: a remote invocation of a run whose arguments, as the model gave   *)
(* them, have an address_id, or whose tool name has 'address' in it, is     *)
(* sent with address_id set to the fixed identifier and the model's other  *)
(* arguments as given; the record of the call holds the arguments as sent. *)
C17_AddressOverwritten ==
  [][\A p \in Procs :
       (/\ procs[p].op = "prompt" /\ procs[p].pc = "req_wait"
        /\ Val(procs[p].req).method = "callTool"
        /\ procs'[p] # procs[p])
       => LET r == Val(procs[p].run)
              after == IF procs'[p].run # None THEN Val(procs'[p].run)
                       ELSE Val(lastResponse'.from.run)
              toolCall == Head(r.calls)
              given == JsonParse(toolCall.arguments)
              sent == Val(Val(procs[p].req).args)
              k == Len(r.toolCallLog) + 1
          IN /\ Val(procs[p].req).name = toolCall.name
             /\ ((given.ok /\ given.value.address_id # None)
                 \/ IncludesAddress(toolCall.name)) =>
                  sent.address_id = Some(AddressId)
             /\ given.ok => sent.query = given.value.query
             /\ Len(after.toolCallLog) >= k
             /\ after.toolCallLog[k].tool = toolCall.name
             /\ after.toolCallLog[k].args = sent]_vars

(* A search the model asked for with an address_id of its own has been     *)
(* recorded with the fixed identifier.                                     *)
C17_Witness ==
  \E p \in Procs :
    /\ procs[p].op = "prompt" /\ procs[p].pc = "llm_wait"
    /\ Val(procs[p].run).toolCallLog # <<>>
    /\ Val(procs[p].run).toolCallLog[1].tool = "search_products"
    /\ Val(procs[p].run).toolCallLog[1].args.address_id = Some(AddressId)
    /\ Val(procs[p].run).messages[3].message.tool_calls[1].arguments
         = "{\"query\":\"pizza\",\"address_id\":\"home\"}"

(***************************************************************************)

C19_MalformedArgumentsNeverAbort ==
  LET asksTools(m) == /\ m.role = "assistant"
                      /\ m.message.finish_reason = "tool_calls"
                      /\ m.message.tool_calls # <<>>
      isFunction(c) == c.type = "function"
      usable(c) == JsonParse(c.arguments).ok /\ JsonParse(c.arguments).value.isObject
      RECURSIVE asked(_)
      asked(ms) == IF ms = <<>> THEN <<>>
                   ELSE IF asksTools(Head(ms))
                   THEN SelectSeq(Head(ms).message.tool_calls, isFunction)
                        \o asked(Tail(ms))
                   ELSE asked(Tail(ms))
      executedEmpty(r) ==
        LET calls == asked(r.messages)
        IN \A k \in DOMAIN calls :
             ~usable(calls[k]) =>
               /\ k \in DOMAIN r.toolCallLog
               /\ r.toolCallLog[k].tool = calls[k].name
               /\ r.toolCallLog[k].args = InjectAddress(calls[k].name, EmptyObject)
  IN /\ \A p \in Procs :
          (procs[p].op = "prompt" /\ procs[p].pc = "llm_wait") =>
            executedEmpty(Val(procs[p].run))
     /\ (lastResponse.from.op = "prompt" /\ lastResponse.from.call # "listTools") =>
          executedEmpty(Val(lastResponse.from.run))

(* C23: a run never invokes a deny-listed tool on the provider: no        *)
(* callTool of a run is in flight, or opening a connection to be sent, for *)
(* get_addresses, create_cart or add_to_cart, whatever the model asks for. *)
C23_DenyListedNeverInvoked ==
  \A p \in Procs :
    (/\ procs[p].op = "prompt"
     /\ procs[p].call = "callTool"
     /\ procs[p].pc \in {"req_wait", "http_wait", "sse_wait", "refresh_wait"}) =>
      procs[p].name \notin BlockedTools

(***************************************************************************)
(* Properties of the connection (Spec)                                     *)
(***************************************************************************)

(* C20: when the token endpoint has just answered an exchange or a refresh *)
(* with a token, the stored token's expiry is the time of the answer plus  *)
(* the lifetime of the response (in ms) if the response carried a lifetime *)
(* -- 0 included -- and is absent only if it carried none; and             *)
(* getValidToken entered with a token that has no expiry sends no refresh. *)
C20_ExpiryFromLifetime ==
  /\ (lastReply.kind = "ok" /\ lastReply.good /\ tokenData # None) =>
       LET td == Val(tokenData)
       IN IF td.expires_in # None
          THEN td.expires_at = Some(now + Val(td.expires_in) * 1000)
          ELSE td.expires_at = None
  /\ lastGv.cls = "noexp" => lastGv.sent = 0

(* C21: an exchange discards only the pending authorization it consumed:  *)
(* as long as no exchange has been sent for the state of the latest login, *)
(* the pending authorization of that login is still stored, and a callback *)
(* carrying that state is not answered with NoPendingAuthorization.        *)
C21_NewerPendingAuthKept ==
  (drawn > 0 /\ xchgSent[drawn] = 0) =>
    /\ pendingAuth # None
    /\ Val(pendingAuth).state = RandomState(drawn)
    /\ ~(/\ lastResponse.res = "NoPendingAuthorization"
         /\ lastResponse.from.state = RandomState(drawn))

(* C22: a listTools or callTool request is only ever in flight on a       *)
(* Client whose transport handshake has succeeded: never on one that is    *)
(* still connecting, nor on one whose handshake failed.                    *)
C22_RequestsOnEstablishedSession ==
  \A p \in Procs :
    procs[p].pc = "req_wait" =>
      sessions[Val(procs[p].req).on] \in {"connected", "closed"}

(* C24: a successful refresh keeps the ability to refresh: when the token *)
(* endpoint answers a refresh request with a token while a refresh token   *)
(* is stored, a refresh token is stored afterwards too (the one of the     *)
(* response, or the earlier one if the response has none).                 *)
C24_RefreshKeepsRefreshToken ==
  [][\A p \in Procs :
       (/\ procs[p].pc = "refresh_wait"
        /\ tokenData # None /\ Val(tokenData).refresh_token # None
        /\ lastReply'.to = p /\ lastReply'.kind = "ok" /\ lastReply'.good) =>
         /\ tokenData' # None
         /\ Val(tokenData').refresh_token # None]_vars

(* C11: connect opens the Streamable HTTP transport on a new Client with   *)
(* the stored access token; only when that handshake fails does it open    *)
(* the SSE transport, on another new Client and with the same token; when  *)
(* that fails too the call fails with ConnectFailed carrying the SSE       *)
(* attempt's cause and this.client is null; and when getValidToken fails   *)
(* no Client is made and no transport opened.                              *)
C11_ConnectFallback ==
  [][\A p \in Procs :
       procs'[p] # procs[p] =>
         /\ (procs'[p].pc = "http_wait" /\ procs[p].pc # "http_wait") =>
              /\ sessions' = Append(sessions, "connecting")
              /\ procs'[p].mine = Len(sessions')
              /\ client' = Some(procs'[p].mine)
              /\ procs'[p].token = Some(Val(tokenData').access_token)
         /\ (procs'[p].pc = "sse_wait" /\ procs[p].pc # "sse_wait") =>
              /\ procs[p].pc = "http_wait" /\ ~lastReply'.good
              /\ sessions' = Append([sessions EXCEPT ![procs[p].mine] = "failed"],
                                    "connecting")
              /\ procs'[p].mine = Len(sessions')
              /\ client' = Some(procs'[p].mine)
              /\ procs'[p].token = procs[p].token
         /\ (procs[p].pc = "http_wait" /\ lastReply'.good) =>
              sessions' = [sessions EXCEPT ![procs[p].mine] = "connected"]
         /\ (procs[p].pc = "sse_wait" /\ ~lastReply'.good) =>
              /\ lastResponse'.res = "ConnectFailed"
              /\ lastResponse'.body = Some(lastReply'.cause)
              /\ client' = None
              /\ sessions' = [sessions EXCEPT ![procs[p].mine] = "failed"]
         /\ lastResponse'.res \in {"NotAuthenticated", "NoRefreshToken",
                                   "RefreshFailed", "NetworkError"} =>
              /\ sessions' = sessions
              /\ client' = client]_vars

(* Both transports have failed, with different causes: the call has failed *)
(* with the second one and no handle is held.                              *)
C11_Witness ==
  /\ lastResponse.res = "ConnectFailed"
  /\ lastResponse.body = Some("HTTP 405")
  /\ client = None
  /\ sessions = <<"failed", "failed">>

(* C12: at most one session to the provider is established and not yet    *)
(* closed, whatever the calls made -- connect being called again while     *)
(* connected, as every OAuth callback does, included.                      *)
C12_OneLiveSession ==
  Cardinality({k \in DOMAIN sessions : sessions[k] = "connected"}) <= 1

(* C14: disconnect never fails and leaves no connection handle: with no   *)
(* handle held it does nothing, with one held it closes it, best effort    *)
(* (a failing close included), and clears the handle.                      *)
C14_DisconnectNeverFails ==
  lastResponse.from.op = "disconnect" =>
    /\ lastResponse.res = "ok"
    /\ client = None

(***************************************************************************)
(* Properties of a run when the connection is lost under it (ConcSpec)     *)
(***************************************************************************)

(* C13: an authorization or connection error raised during a run -- by    *)
(* the lazy connect of callTool included -- ends the run; it is never the  *)
(* result of a tool-call record, nor shown to the model in a tool message. *)
C13_AuthErrorsEndRun ==
  \A p \in Procs :
    procs[p].run # None =>
      \A k \in DOMAIN Val(procs[p].run).toolCallLog :
        LET result == Val(procs[p].run).toolCallLog[k].result
        IN DOMAIN result = {"error"} =>
             result.error \notin {"NotAuthenticated", "NoRefreshToken",
                                  "RefreshFailed", "ConnectFailed"}

=============================================================================
